---------------------------- MODULE Spec2Model ----------------------------
(***************************************************************************)
(* export_to_pdf.py: URL discovery (discover_urls, and the browser-mode     *)
(* loop written out in main), content extraction                           *)
(* (extract_page_content and the script run by fetch_page_browser), and    *)
(* the page loop of main with merge_pdfs.                                  *)
(*                                                                         *)
(* A Python string is a sequence of tokens; a token is an indivisible      *)
(* chunk of characters ("https://", "/", "#", a host, a path segment).     *)
(* startswith, split('#'), rstrip('/'), lower() and `in` are computed on   *)
(* token sequences the way Python computes them on characters.             *)
(*                                                                         *)
(* Spec is one call of discover_urls, SpecExtract one call of              *)
(* extract_page_content, SpecMain the run of main from stage 2 on,         *)
(* SpecRun a whole run of main with or without --browser, SpecTwin         *)
(* discover_urls and the discovery loop of main side by side.              *)
(***************************************************************************)
EXTENDS Integers, Sequences, FiniteSets, TLC

\* ------------------------------------------------------------------ bounds
MaxDepth == 2
MaxURLs == 4
TreeDepth == 3

\* ------------------------------------------------------------------ state
VARIABLES
  start_url, filter_pattern, max_depth, max_urls,   \* arguments of discover_urls
  site, down,                                       \* the web being crawled
  discovered, to_visit, current_url, depth, soup, error, urls,
  link,                                             \* index in soup of the next <a>
  pc,                                               \* position in discover_urls
  fetched,     \* history: the URLs passed to fetch_page, in order
  dequeued,    \* history: the entries popped from to_visit, in order
  enqueued,    \* history: the entries appended to to_visit, in order
  delayed,     \* history: time.sleep ran since the last fetch_page call
  run, prev,   \* run number, and what the previous run fetched and discovered
  doc,         \* extract_page_content: the parsed document (soup)
  browser,     \* args.browser: the document carries _browser_extracted
  content,     \* the Page Result being built: title and sections
  main_content,      \* the copied content root and the elements left in it
  processed_texts,
  element,     \* index of the next element of main_content.find_all(True)
  classified,  \* history: the sections the walk produced, before the fallback
  page,        \* main: i, the 1-based index in urls of the page being processed
  pdf_paths,   \* main: the artifacts created so far
  toc_entries, \* main: (title or url, ordinal) per artifact
  rendered,    \* history: the pages create_page_pdf was called for
  exit_code,   \* -1 while main runs
  toc_pdf,     \* merge_pdfs: the file _toc_temp.pdf, <<>> when it does not exist
  writer,      \* merge_pdfs: the artifacts whose pages were added to the writer
  part,        \* merge_pdfs: index in pdf_paths of the next artifact to add
  merged,      \* what merge_pdfs returned: "none", "ok", "failed"
  final,       \* the Final Document written to output_path, <<>> when none
  browser_context,  \* the module global _browser_context, NoContext when None
  contexts,    \* the browser contexts created and not yet passed to close()
  inline       \* the locals of the discovery loop written out in main

args == <<start_url, filter_pattern, max_depth, max_urls>>
env == <<site, down>>
locals == <<discovered, to_visit, current_url, depth, soup, error, urls, link>>
hist == <<fetched, dequeued, enqueued, delayed>>
discovery == <<args, env, locals, hist, run, prev>>
extraction == <<doc, browser, content, main_content, processed_texts, element, classified>>
crawl == <<args, env, discovered, to_visit, current_url, depth, soup, error, link,
           run, prev>>
pages == <<page, pdf_paths, toc_entries, rendered>>
processing == <<pages, exit_code>>
merging == <<toc_pdf, writer, part, merged, final>>
session == <<browser_context, contexts>>
browsing == <<session, inline>>
vars == <<discovery, pc, extraction, processing, merging, browsing>>

\* ----------------------------------------------------------------- strings
S == "https://"

HttpSchemes == {"https://", "http://"}

Schemes == HttpSchemes \cup {"ftp://"}

NoFilter == <<>>

\* str.lower() on one token
Lower(tok) ==
  CASE tok = "A" -> "a"
    [] tok = ".PDF" -> ".pdf"
    [] OTHER -> tok

\* str.lower()
LowerSeq(s) == [i \in 1..Len(s) |-> Lower(s[i])]

\* s.startswith(t), t one token
StartsWith(s, t) == Len(s) >= 1 /\ s[1] = t

\* s.startswith('http')
StartsWithHttp(s) == Len(s) >= 1 /\ s[1] \in HttpSchemes

\* f in u (substring test)
Contains(u, f) ==
  \E i \in 0..(Len(u) - Len(f)) : SubSeq(u, i + 1, i + Len(f)) = f

\* s.split('#')[0]
SplitHash(s) ==
  IF \E i \in 1..Len(s) : s[i] = "#"
  THEN LET i == CHOOSE j \in 1..Len(s) :
                  s[j] = "#" /\ \A k \in 1..(j - 1) : s[k] # "#"
       IN SubSeq(s, 1, i - 1)
  ELSE s

\* s.rstrip('/')
RECURSIVE RStripSlash(_)
RStripSlash(s) ==
  IF Len(s) >= 1 /\ s[Len(s)] = "/"
  THEN RStripSlash(SubSeq(s, 1, Len(s) - 1))
  ELSE s

\* urlparse(url).netloc
Netloc(url) ==
  IF Len(url) >= 2 /\ url[1] \in Schemes /\ url[2] \notin {"/", "#", "?"}
  THEN url[2]
  ELSE ""

\* urlparse(url).scheme, with its "://"
SchemeOf(url) == IF Len(url) >= 1 /\ url[1] \in Schemes THEN url[1] ELSE "://"

\* index of the last "/" of s, 0 when there is none
LastSlash(s) ==
  IF \E i \in 1..Len(s) : s[i] = "/"
  THEN CHOOSE i \in 1..Len(s) :
         s[i] = "/" /\ \A k \in (i + 1)..Len(s) : s[k] # "/"
  ELSE 0

\* urljoin(base, url)
UrlJoin(base, url) ==
  IF url = <<>> THEN base
  ELSE IF url[1] \in Schemes THEN url
  ELSE IF Len(url) >= 2 /\ url[1] = "/" /\ url[2] = "/"
       THEN <<SchemeOf(base)>> \o SubSeq(url, 3, Len(url))
  ELSE LET b == SplitHash(base)
           origin == SubSeq(b, 1, 2)
           path == SubSeq(b, 3, Len(b))
       IN IF url[1] = "/" THEN origin \o url
          ELSE IF url[1] = "#" THEN b \o url
          ELSE IF path = <<>> THEN origin \o <<"/">> \o url
          ELSE origin \o SubSeq(path, 1, LastSlash(path)) \o url

\* ------------------------------------------------------------ environment
\* The web as the fetcher sees it: one host "h" serving the pages of `site`
\* (a page is named by its path segments), the pages in `down` failing.
SiteNames == {"tree", "endless", "ring", "mixed"}

Seeds == { <<S, "h", "/">>, <<S, "h">>, <<S, "h", "/", "a", "#", "x">> }

Filters == { NoFilter, <<"A">>, <<"/", "b">> }

DownSets == { {}, {<<>>}, {<<"a">>}, {<<"a">>, <<"b">>} }

\* '/seg1/seg2...' as a root-relative reference
RECURSIVE PathTokens(_)
PathTokens(segs) ==
  IF segs = <<>> THEN <<>>
  ELSE <<"/", Head(segs)>> \o PathTokens(Tail(segs))

\* The resource a URL names: its path segments, fragment and slashes dropped.
SegsOf(url) ==
  LET b == SplitHash(url)
      q == IF Contains(b, "?")
           THEN SubSeq(b, 1, (CHOOSE i \in 1..Len(b) :
                                /\ b[i] = "?"
                                /\ \A j \in 1..(i - 1) : b[j] # "?") - 1)
           ELSE b
  IN SelectSeq(SubSeq(q, 3, Len(q)), LAMBDA tok : tok # "/")

InTree(p) == \A i \in 1..Len(p) : p[i] \in {"a", "b"}

PageExists(st, p) ==
  CASE st = "tree" -> InTree(p) /\ Len(p) <= TreeDepth
    [] st = "endless" -> InTree(p)
    [] st = "ring" -> p \in {<<>>, <<"a">>, <<"b">>}
    [] st = "triangle" -> p \in {<<>>, <<"a">>, <<"b">>}
    [] OTHER -> p \in {<<>>, <<"a">>, <<"b">>, <<"A">>}

\* The href attributes of the page's <a> elements, in document order.
Hrefs(st, p) ==
  CASE st = "tree" ->
         IF Len(p) < TreeDepth
         THEN << PathTokens(p \o <<"a">>), PathTokens(p \o <<"b">>) >>
         ELSE <<>>
    [] st = "endless" ->
         << PathTokens(p \o <<"a">>), <<"/">>, PathTokens(p \o <<"b">>) >>
    [] st = "triangle" ->
         CASE p = <<>> -> << <<"/", "a">>, <<"/", "b">> >>
           [] p = <<"a">> -> << <<"/">>, <<"/", "b">> >>
           [] OTHER -> << <<"/">>, <<"/", "a">> >>
    [] st = "ring" ->
         CASE p = <<>> -> << <<"/", "a", "/">>, <<S, "h", "/", "b", "#", "x">> >>
           [] p = <<"a">> -> << <<"/">>, <<"/", "b">> >>
           [] OTHER -> << <<"/", "a", "#", "x">>, <<S, "h", "/">> >>
    [] OTHER ->
         CASE p = <<>> -> << <<"#", "x">>, <<"mailto:", "x">>, <<"/", "a", ".PDF">>,
                             <<S, "g", "/", "a">>, <<"/", "/", "g", "/", "b">>,
                             <<"/", "A">>, <<"b">>, <<"/", "a", "/", "/">>,
                             <<"/", "a", "#", "x">>, <<>> >>
           [] p = <<"a">> -> << <<"javascript:", "x">>, <<"b", "/">>, <<"tel:", "x">>,
                                <<"/">>, <<"ftp://", "h", "/", "a">> >>
           [] p = <<"A">> -> << <<"/", "a">>, <<"a", "/", "a">> >>
           [] OTHER -> << <<"a", "/", "b">>, <<"/", "b", "/">>,
                          <<"/", "b", ".zip", "/", "a">>, <<"/", "b", "?", "q", "/">> >>

\* fetch_page(url): (soup, error); the soup is kept as the list of hrefs.
FetchFails(st, dn, url) ==
  LET u == IF StartsWithHttp(url) THEN url ELSE <<S>> \o url
  IN \/ Netloc(u) # "h"
     \/ ~PageExists(st, SegsOf(u))
     \/ SegsOf(u) \in dn

FetchSoup(st, url) ==
  LET u == IF StartsWithHttp(url) THEN url ELSE <<S>> \o url
  IN Hrefs(st, SegsOf(u))

\* A mutant of Matches: the comparison without lower().
MatchesExact(u, pattern) == Contains(u, pattern)

\* pattern.lower() in u.lower()
Matches(u, pattern) == Contains(LowerSeq(u), LowerSeq(pattern))

\* --------------------------------------------------- link handling (pure)
Exts == {".pdf", ".jpg", ".png", ".gif", ".zip"}

\* "Skip non-page links"
SkipLink(href) ==
  \/ StartsWith(href, "#") \/ StartsWith(href, "javascript:")
  \/ StartsWith(href, "mailto:") \/ StartsWith(href, "tel:")
  \/ \E i \in 1..Len(href) : Lower(href[i]) \in Exts

\* "Make absolute URL"
MakeAbsolute(href, base_url, cur) ==
  IF StartsWith(href, "/") THEN UrlJoin(base_url, href)
  ELSE IF ~StartsWithHttp(href) THEN UrlJoin(cur, href)
  ELSE href

\* A mutant of SameDomain: the check is left out.
AnyDomain(href, base_domain) == TRUE

\* "Check if same domain"
SameDomain(href, base_domain) == Netloc(href) = base_domain

\* A mutant of CleanUrl: one trailing slash is removed, not all of them.
CleanUrlOneSlash(href) ==
  LET b == SplitHash(href)
  IN IF b # <<>> /\ b[Len(b)] = "/" THEN SubSeq(b, 1, Len(b) - 1) ELSE b

\* "Clean URL (remove fragments and trailing slashes for dedup)"
CleanUrl(href) == RStripSlash(SplitHash(href))

\* A mutant of Seen: no key counts as discovered.
SeenNever(disc, url) == FALSE

\* A mutant of Seen: the filter is applied while crawling.
SeenOrFiltered(disc, url) ==
  \/ \E i \in 1..Len(disc) : disc[i].url = url
  \/ filter_pattern # NoFilter /\ ~Matches(url, filter_pattern)

\* clean_url in discovered
Seen(disc, url) == \E i \in 1..Len(disc) : disc[i].url = url

Entry(u, d) == [url |-> u, depth |-> d]

\* The body of `for a in soup.find_all('a', href=True)` for one link.
ScanLink(href, st, base_url, base_domain, cur, d) ==
  IF SkipLink(href) THEN st
  ELSE LET abs == MakeAbsolute(href, base_url, cur)
       IN IF ~SameDomain(abs, base_domain) THEN st
          ELSE LET clean_url == CleanUrl(abs)
               IN IF Seen(st.discovered, clean_url) THEN st
                  ELSE [discovered |-> Append(st.discovered, Entry(clean_url, d + 1)),
                        to_visit |-> Append(st.to_visit, Entry(clean_url, d + 1))]

\* urls = list(discovered.keys())
Keys(disc) == [i \in 1..Len(disc) |-> disc[i].url]

\* "Apply filter if specified"
ApplyFilter(us, pattern) ==
  IF pattern # NoFilter
  THEN SelectSeq(us, LAMBDA u : Matches(u, pattern))
  ELSE us

\* urls[:n]
Limit(us, n) ==
  IF n >= 0
  THEN SubSeq(us, 1, IF n < Len(us) THEN n ELSE Len(us))
  ELSE SubSeq(us, 1, IF Len(us) + n > 0 THEN Len(us) + n ELSE 0)

\* A mutant of PopIndex: to_visit.pop(), the newest entry first.
PopLast(queue) == Len(queue)

\* to_visit.pop(0): the index that is taken
PopIndex(queue) == 1

\* A mutant of TooDeep: entries at max_depth are still fetched.
TooDeepOffByOne(d, maxd) == d > maxd

\* A mutant of TooDeep: no entry is dropped for its depth.
TooDeepNever(d, maxd) == FALSE

\* if depth >= max_depth: continue
TooDeep(d, maxd) == d >= maxd

RemoveAt(queue, i) == SubSeq(queue, 1, i - 1) \o SubSeq(queue, i + 1, Len(queue))

\* ------------------------------------------------------- discover_urls
\* parsed_start.netloc
BaseDomain == Netloc(start_url)

\* f"{parsed_start.scheme}://{base_domain}"
BaseUrl == <<SchemeOf(start_url), BaseDomain>>

NoPrev == [fetched |-> <<>>, discovered |-> <<>>, urls |-> <<>>,
           filter_pattern |-> NoFilter]

\* The state of discover_urls on entry to its while loop.
Start(seed) ==
  /\ discovered = <<Entry(seed, 0)>>
  /\ to_visit = <<Entry(seed, 0)>>
  /\ current_url = <<>>
  /\ depth = 0
  /\ soup = <<>>
  /\ error = FALSE
  /\ urls = <<>>
  /\ link = 1
  /\ pc = "loop"
  /\ fetched = <<>>
  /\ dequeued = <<>>
  /\ enqueued = <<Entry(seed, 0)>>
  /\ delayed = FALSE

\* No document is being extracted.
NoExtraction ==
  /\ doc = [title |-> <<>>, nodes |-> <<>>]
  /\ browser = FALSE
  /\ content = [title |-> <<>>, sections |-> <<>>]
  /\ main_content = [root |-> 0, kept |-> {}]
  /\ processed_texts = {}
  /\ element = 1
  /\ classified = <<>>

\* No crawl has started.
NoCrawl ==
  /\ start_url = <<>>
  /\ filter_pattern = NoFilter
  /\ max_depth = 0
  /\ max_urls = 0
  /\ site = "tree"
  /\ down = {}
  /\ discovered = <<>>
  /\ to_visit = <<>>
  /\ current_url = <<>>
  /\ depth = 0
  /\ soup = <<>>
  /\ error = FALSE
  /\ link = 1
  /\ dequeued = <<>>
  /\ enqueued = <<>>
  /\ run = 1
  /\ prev = NoPrev

\* No discovery is running.
NoDiscovery ==
  /\ NoCrawl
  /\ urls = <<>>
  /\ fetched = <<>>
  /\ delayed = FALSE

\* _browser_context = None
NoContext == 0

\* The discovery loop of main is not running.
NoInline == [pc |-> "off", discovered |-> <<>>, to_visit |-> <<>>,
             current_url |-> <<>>, depth |-> 0, soup |-> <<>>, error |-> FALSE,
             link |-> 1, urls |-> <<>>, fetched |-> <<>>, dequeued |-> <<>>]

\* No browser was started and main is not discovering.
NoBrowsing ==
  /\ browser_context = NoContext
  /\ contexts = {}
  /\ inline = NoInline

\* The page loop and the merge have not started.
NoProcessing ==
  /\ page = 0
  /\ pdf_paths = <<>>
  /\ toc_entries = <<>>
  /\ rendered = <<>>
  /\ exit_code = -1
  /\ toc_pdf = <<>>
  /\ writer = <<>>
  /\ part = 1
  /\ merged = "none"
  /\ final = <<>>

Init ==
  /\ start_url \in Seeds
  /\ filter_pattern \in Filters
  /\ max_depth \in 0..MaxDepth
  /\ max_urls \in 0..MaxURLs
  /\ site \in SiteNames
  /\ down \in DownSets
  /\ Start(start_url)
  /\ run = 1
  /\ prev = NoPrev
  /\ NoExtraction
  /\ NoProcessing
  /\ NoBrowsing

\* A mutant of LoopCond: the soft cap is left out.
LoopCondNoCap == to_visit # <<>>

\* while to_visit and len(discovered) < max_urls * 2
LoopCond == to_visit # <<>> /\ Len(discovered) < max_urls * 2

\* current_url, depth = to_visit.pop(0); if depth >= max_depth: continue
Dequeue ==
  /\ pc = "loop"
  /\ LoopCond
  /\ LET i == PopIndex(to_visit)
         e == to_visit[i]
     IN /\ to_visit' = RemoveAt(to_visit, i)
        /\ current_url' = e.url
        /\ depth' = e.depth
        /\ dequeued' = Append(dequeued, e)
        /\ pc' = IF TooDeep(e.depth, max_depth) THEN "loop" ELSE "fetch"
  /\ UNCHANGED <<processing, merging, extraction, browsing,
                 args, env, discovered, soup, error, urls, link, fetched, enqueued,
                 delayed, run, prev>>

\* A mutant of FetchFail: a failed fetch ends the crawl (break).
FetchFailAbort ==
  /\ pc = "fetch"
  /\ FetchFails(site, down, current_url)
  /\ soup' = <<>>
  /\ error' = TRUE
  /\ fetched' = Append(fetched, current_url)
  /\ delayed' = FALSE
  /\ to_visit' = <<>>
  /\ pc' = "loop"
  /\ UNCHANGED <<processing, merging, extraction, browsing,
                 args, env, discovered, current_url, depth, urls, link,
                 dequeued, enqueued, run, prev>>

\* A mutant of FetchFail: a failed fetch is tried again, for ever.
FetchFailRetry ==
  /\ pc = "fetch"
  /\ FetchFails(site, down, current_url)
  /\ soup' = <<>>
  /\ error' = TRUE
  /\ fetched' = <<current_url>>
  /\ delayed' = FALSE
  /\ pc' = "fetch"
  /\ UNCHANGED <<processing, merging, extraction, browsing,
                 args, env, discovered, to_visit, current_url, depth, urls, link,
                 dequeued, enqueued, run, prev>>

\* soup, error = fetch_page(current_url); if error: continue
FetchFail ==
  /\ pc = "fetch"
  /\ FetchFails(site, down, current_url)
  /\ soup' = <<>>
  /\ error' = TRUE
  /\ fetched' = Append(fetched, current_url)
  /\ delayed' = FALSE
  /\ pc' = "loop"
  /\ UNCHANGED <<processing, merging, extraction, browsing,
                 args, env, discovered, to_visit, current_url, depth, urls, link,
                 dequeued, enqueued, run, prev>>

\* soup, error = fetch_page(current_url), no error; the for loop is entered
FetchOk ==
  /\ pc = "fetch"
  /\ ~FetchFails(site, down, current_url)
  /\ soup' = FetchSoup(site, current_url)
  /\ error' = FALSE
  /\ link' = 1
  /\ fetched' = Append(fetched, current_url)
  /\ delayed' = FALSE
  /\ pc' = IF soup' = <<>> THEN "sleep" ELSE "scan"
  /\ UNCHANGED <<processing, merging, extraction, browsing,
                 args, env, discovered, to_visit, current_url, depth, urls,
                 dequeued, enqueued, run, prev>>

\* One iteration of `for a in soup.find_all('a', href=True)`.
Scan ==
  /\ pc = "scan"
  /\ LET st == ScanLink(soup[link], [discovered |-> discovered, to_visit |-> to_visit],
                        BaseUrl, BaseDomain, current_url, depth)
     IN /\ discovered' = st.discovered
        /\ to_visit' = st.to_visit
        /\ enqueued' = enqueued \o SubSeq(st.to_visit, Len(to_visit) + 1,
                                          Len(st.to_visit))
  /\ link' = link + 1
  /\ pc' = IF link = Len(soup) THEN "sleep" ELSE "scan"
  /\ UNCHANGED <<processing, merging, extraction, browsing,
                 args, env, current_url, depth, soup, error, urls, fetched,
                 dequeued, delayed, run, prev>>

\* time.sleep(0.3)
Sleep ==
  /\ pc = "sleep"
  /\ delayed' = TRUE
  /\ pc' = "loop"
  /\ UNCHANGED <<processing, merging, extraction, browsing,
                 args, env, locals, fetched, dequeued, enqueued, run, prev>>

\* The loop ends; filter, limit, return urls.
PostLoop ==
  /\ pc = "loop"
  /\ ~LoopCond
  /\ urls' = Limit(ApplyFilter(Keys(discovered), filter_pattern), max_urls)
  /\ pc' = "done"
  /\ UNCHANGED <<processing, merging, extraction, browsing,
                 args, env, discovered, to_visit, current_url, depth, soup, error,
                 link, hist, run, prev>>

\* discover_urls is called again on the same web with another filter_pattern.
Rerun ==
  /\ pc = "done"
  /\ run = 1
  /\ \E f \in Filters \ {filter_pattern} :
       /\ filter_pattern' = f
       /\ run' = 2
       /\ prev' = [fetched |-> fetched, discovered |-> discovered, urls |-> urls,
                  filter_pattern |-> filter_pattern]
       /\ discovered' = <<Entry(start_url, 0)>>
       /\ to_visit' = <<Entry(start_url, 0)>>
       /\ current_url' = <<>>
       /\ depth' = 0
       /\ soup' = <<>>
       /\ error' = FALSE
       /\ urls' = <<>>
       /\ link' = 1
       /\ pc' = "loop"
       /\ fetched' = <<>>
       /\ dequeued' = <<>>
       /\ enqueued' = <<Entry(start_url, 0)>>
       /\ delayed' = FALSE
  /\ UNCHANGED <<processing, merging, extraction, browsing,
                 start_url, max_depth, max_urls, env>>

Next ==
  \/ Dequeue
  \/ FetchFail
  \/ FetchOk
  \/ Scan
  \/ Sleep
  \/ PostLoop
  \/ Rerun

Spec == Init /\ [][Next]_vars

\* Every call returns, so the loop keeps taking steps.
FairSpec == Spec /\ WF_vars(Next)

\* ------------------------------------------------------------- properties
NoDup(s) == \A i, j \in 1..Len(s) : s[i] = s[j] => i = j

Range(s) == {s[i] : i \in 1..Len(s)}

IsPrefix(s, t) == Len(s) <= Len(t) /\ s = SubSeq(t, 1, Len(s))

\* The keys the loop takes from the page at url: none when the fetch fails.
Targets(url) ==
  IF FetchFails(site, down, url) THEN {}
  ELSE { CleanUrl(MakeAbsolute(h, BaseUrl, url)) :
           h \in { g \in Range(FetchSoup(site, url)) :
                     /\ ~SkipLink(g)
                     /\ SameDomain(MakeAbsolute(g, BaseUrl, url), BaseDomain) } }

\* C1: during one run no URL key is dequeued or passed to the fetcher more
\* than once, even when several pages link to it: every key is enqueued at
\* most once, and only after it was put in the visited set.
C1_FetchedAtMostOnce ==
  /\ NoDup(fetched)
  /\ NoDup(Keys(dequeued))
  /\ NoDup(Keys(enqueued))
  /\ NoDup(Keys(discovered))
  /\ \A i \in 1..Len(to_visit) : to_visit[i] \in Range(discovered)
  /\ \A i \in 1..Len(fetched) : fetched[i] \in Range(Keys(dequeued))

\* C1 witness: the crawl ended, and a key that two fetched pages link to was
\* dequeued.
C1_Witness ==
  /\ pc = "done"
  /\ \E i, j \in 1..Len(fetched) :
       /\ i # j
       /\ \E k \in 1..Len(dequeued) :
            dequeued[k].url \in Targets(fetched[i]) \cap Targets(fetched[j])

\* Two URLs that differ only by a fragment and/or one trailing slash.
SameResource(u, v) ==
  LET a == SplitHash(u)
      b == SplitHash(v)
  IN a = b \/ a = b \o <<"/">> \/ b = a \o <<"/">>

\* C2: the visited set holds at most one key per resource: two references,
\* the seed included, that differ only by a fragment and/or a trailing slash
\* have the same key.
C2_OneKeyPerResource ==
  \A i, j \in 1..Len(discovered) :
    SameResource(discovered[i].url, discovered[j].url) => i = j

\* C3: the frontier is strict FIFO: entries are dequeued in the order they
\* were enqueued, so the depths of successively dequeued entries never
\* decrease (breadth-first level order).
C3_Fifo ==
  /\ enqueued = dequeued \o to_visit
  /\ \A i, j \in 1..Len(dequeued) :
       i < j => dequeued[i].depth <= dequeued[j].depth

\* C3 witness: entries of three levels were dequeued, two of them of depth 1.
C3_Witness ==
  \E i, j, k \in 1..Len(dequeued) :
    /\ i < j /\ j < k
    /\ dequeued[i].depth = 1 /\ dequeued[j].depth = 1 /\ dequeued[k].depth = 2

\* The keys at breadth-first distance <= n of the seed, by levels.
RECURSIVE Within(_)
Within(n) ==
  IF n = 0 THEN {start_url}
  ELSE LET w == Within(n - 1)
       IN w \cup UNION {Targets(k) : k \in w}

NoFailures == \A i \in 1..Len(fetched) : ~FetchFails(site, down, fetched[i])

CapNotReached == Len(discovered) < max_urls * 2

\* C4 as claimed: with no fetch failure and the soft cap not reached, the
\* URLs fetched are exactly those at breadth-first distance <= max_depth.
C4_FetchedWithinMaxDepth ==
  (pc = "done" /\ NoFailures /\ CapNotReached)
    => Range(fetched) = Within(max_depth)

\* C4 amended: with no fetch failure and the soft cap not reached, the URLs
\* fetched are exactly those at breadth-first distance < max_depth, and the
\* visited set is exactly those at distance <= max_depth; on the depth-3
\* binary tree with max_depth = 2 the nodes of depth 0 and 1 are fetched and
\* those of depth 2 are visited and not fetched.
C4_FetchedBelowMaxDepth ==
  (pc = "done" /\ NoFailures /\ CapNotReached)
    => /\ Range(fetched) = (IF max_depth = 0 THEN {} ELSE Within(max_depth - 1))
       /\ Range(Keys(discovered)) = Within(max_depth)
       /\ (site = "tree" /\ max_depth = 2 /\ SegsOf(start_url) = <<>>)
            => /\ {SegsOf(u) : u \in Range(fetched)}
                    = {<<>>, <<"a">>, <<"b">>}
               /\ \A u \in Range(Keys(discovered)) : Len(SegsOf(u)) <= 2

\* C4 witness: the depth-3 binary tree crawled with max_depth = 2, no failure
\* and the cap not reached: 3 pages fetched, 7 keys visited.
C4_Witness ==
  /\ pc = "done" /\ site = "tree" /\ max_depth = 2
  /\ NoFailures /\ CapNotReached
  /\ Len(fetched) = 3 /\ Len(discovered) = 7

\* C5: the discovery loop terminates, on cyclic graphs and on graphs with
\* unboundedly many pages alike: from the loop a state is reached where the
\* function has returned, the frontier being empty or the visited set having
\* reached 2 x max_urls.
C5_Terminates ==
  (pc = "loop") ~> (pc = "done" /\ (to_visit = <<>> \/ Len(discovered) >= max_urls * 2))

\* C5 witness: the crawl of the endless site returned with entries left in
\* the frontier, after fetching pages of two levels.
C5_Witness ==
  /\ pc = "done" /\ site = "endless" /\ to_visit # <<>>
  /\ \E i \in 1..Len(dequeued) : dequeued[i].depth = 1 /\ dequeued[i].url \in Range(fetched)

\* C6: a failed fetch does not abort discovery: the step adds no key to the
\* visited set or the frontier, leaves every discovered key and queued entry
\* as it was, keeps the failed URL visited, and returns to the loop head.
C6_FailureSkipsEntry ==
  [][(pc = "fetch" /\ FetchFails(site, down, current_url))
       => /\ discovered' = discovered
          /\ to_visit' = to_visit
          /\ current_url \in Range(Keys(discovered'))
          /\ pc' = "loop"]_vars

\* C6 witness: the last fetch failed and the next entry is about to be fetched.
C6_Witness == pc = "fetch" /\ error /\ fetched # <<>> /\ to_visit # <<>>

\* C7: between two consecutive fetches a politeness delay is awaited, whether
\* the earlier fetch succeeded or failed.
C7_DelayBetweenFetches == (pc = "fetch" /\ fetched # <<>>) => delayed

\* The key contains the filter, compared as written.
HitLiteral(u) == filter_pattern = NoFilter \/ Contains(u, filter_pattern)

\* The key contains the filter, letter case ignored.
HitAnyCase(u) ==
  \/ filter_pattern = NoFilter
  \/ \E i \in 0..(Len(u) - Len(filter_pattern)) :
       \A j \in 1..Len(filter_pattern) : Lower(u[i + j]) = Lower(filter_pattern[j])

\* urls is the visited keys that Hit selects, in discovery order, cut to the
\* first max_urls of them.
ReturnsFirst(Hit(_)) ==
  LET keys == Keys(discovered)
      M == {i \in 1..Len(keys) : Hit(keys[i])}
      n == IF Cardinality(M) < max_urls THEN Cardinality(M) ELSE max_urls
      Nth(j) == CHOOSE i \in M : Cardinality({x \in M : x <= i}) = j
  IN /\ Len(urls) = n
     /\ \A j \in 1..n : urls[j] = keys[Nth(j)]
     /\ Len(urls) <= max_urls
     /\ NoDup(urls)
     /\ Range(urls) \subseteq Range(keys)

\* C8 as claimed: the returned list is the visited keys that contain the
\* filter substring, in first-discovery order, cut to max_urls.
C8_ReturnsContaining == pc = "done" => ReturnsFirst(HitLiteral)

\* C8 amended: the returned list is the visited keys that contain the filter
\* substring compared case-insensitively (all keys with no filter), in
\* first-discovery order, cut to its first max_urls elements: at most
\* max_urls elements, no duplicate, only visited keys.
C8_ReturnsMatching == pc = "done" => ReturnsFirst(HitAnyCase)

\* C8 witness: a filter was given, it rejected a visited key, more keys
\* matched than max_urls, and a returned key matches only with case ignored.
C8_Witness ==
  /\ pc = "done" /\ filter_pattern # NoFilter /\ max_urls >= 1
  /\ \E i \in 1..Len(discovered) : ~HitAnyCase(discovered[i].url)
  /\ Cardinality({i \in 1..Len(discovered) : HitAnyCase(discovered[i].url)}) > max_urls
  /\ \E j \in 1..Len(urls) : ~HitLiteral(urls[j])

\* C9: traversal is independent of the filter: a second run on the same web
\* with the same seed, max_depth and max_urls and another filter issues the
\* same fetches in the same order and ends with the same visited set.
C9_FilterIndependent ==
  run = 2 =>
    /\ IsPrefix(fetched, prev.fetched)
    /\ IsPrefix(discovered, prev.discovered)
    /\ pc = "done" => (fetched = prev.fetched /\ discovered = prev.discovered)

\* C9 witness: the second run ended after several fetches, with another
\* filter and another returned list than the first.
C9_Witness ==
  /\ run = 2 /\ pc = "done"
  /\ filter_pattern # prev.filter_pattern
  /\ urls # prev.urls
  /\ Len(fetched) >= 2

\* C10: every visited key, every frontier entry and every fetched URL has
\* the host of the seed URL.
C10_SameHost ==
  /\ \A i \in 1..Len(discovered) : Netloc(discovered[i].url) = Netloc(start_url)
  /\ \A i \in 1..Len(to_visit) : Netloc(to_visit[i].url) = Netloc(start_url)
  /\ \A i \in 1..Len(fetched) : Netloc(fetched[i]) = Netloc(start_url)

\* C10 witness: the loop went past a link to another host on a fetched page.
C10_Witness ==
  /\ pc \in {"scan", "sleep"}
  /\ \E i \in 1..(link - 1) :
       /\ ~SkipLink(soup[i])
       /\ Netloc(MakeAbsolute(soup[i], BaseUrl, current_url)) = "g"
\* ----------------------------------------------------------- the link filter
\* The path of a reference: what precedes its query and its fragment.
PathPart(href) ==
  LET cut == {i \in 1..Len(href) : href[i] \in {"?", "#"}}
  IN IF cut = {} THEN href
     ELSE SubSeq(href, 1, (CHOOSE i \in cut : \A j \in cut : i <= j) - 1)

PathEndsInExt(href) ==
  LET p == PathPart(href)
  IN p # <<>> /\ Lower(p[Len(p)]) \in Exts

\* The forms of reference that are to be rejected: fragment-only, a
\* javascript:, mailto: or tel: reference, a path ending in a binary extension.
RejectedForm(href) ==
  \/ StartsWith(href, "#")
  \/ StartsWith(href, "javascript:")
  \/ StartsWith(href, "mailto:")
  \/ StartsWith(href, "tel:")
  \/ PathEndsInExt(href)

\* k is abs cut at its fragment with every trailing '/' taken off: k is a
\* prefix of abs, has no '#', does not end in '/', and what abs has after k is
\* a run of '/' followed by nothing or by the fragment.
IsStripped(k, abs) ==
  /\ IsPrefix(k, abs)
  /\ \A i \in 1..Len(k) : k[i] # "#"
  /\ k = <<>> \/ k[Len(k)] # "/"
  /\ LET rest == SubSeq(abs, Len(k) + 1, Len(abs))
     IN \E m \in 0..Len(rest) :
          /\ \A j \in 1..m : rest[j] = "/"
          /\ m = Len(rest) \/ rest[m + 1] = "#"

\* The link under the scanner is accepted: not skipped, and on the seed's host.
Accepted(href) ==
  /\ ~SkipLink(href)
  /\ SameDomain(MakeAbsolute(href, BaseUrl, current_url), BaseDomain)

\* C11: the scanner rejects a reference that is fragment-only, starts with
\* javascript:, mailto: or tel:, or whose path ends in a denylisted extension,
\* and accepts (has a key for) every other same-host reference, one whose path
\* merely contains such an extension included.
C11_RejectsOnlyListedForms ==
  [][pc = "scan" =>
       LET href == soup[link]
           abs == MakeAbsolute(href, BaseUrl, current_url)
       IN IF RejectedForm(href) THEN discovered' = discovered
          ELSE Netloc(abs) = BaseDomain =>
                 \E i \in 1..Len(discovered') : IsStripped(discovered'[i].url, abs)]_vars

\* The key the scanner is said to compute: the fragment and exactly one
\* trailing '/' removed, the root path '/' kept.
OneSlashKey(abs) ==
  LET b == SplitHash(abs)
  IN IF Len(b) > 3 /\ b[Len(b)] = "/" THEN SubSeq(b, 1, Len(b) - 1) ELSE b

\* C12 as stated: the key of an accepted link is its absolute URL without the
\* fragment and without exactly one trailing '/', the root path '/' kept.
C12_OneSlashRemoved ==
  [][(pc = "scan" /\ Accepted(soup[link])) =>
       LET key == OneSlashKey(MakeAbsolute(soup[link], BaseUrl, current_url))
       IN \/ discovered' = Append(discovered, Entry(key, depth + 1))
          \/ discovered' = discovered /\ \E i \in 1..Len(discovered) :
                                            discovered[i].url = key]_vars

\* C12 amended: the key of an accepted link is its absolute URL cut at the
\* fragment with every trailing '/' removed, the '/' of the root path too; the
\* scanner either adds that key as a new last entry or has it already.
C12_AllSlashesRemoved ==
  [][(pc = "scan" /\ Accepted(soup[link])) =>
       LET abs == MakeAbsolute(soup[link], BaseUrl, current_url)
       IN \/ /\ Len(discovered') = Len(discovered) + 1
             /\ SubSeq(discovered', 1, Len(discovered)) = discovered
             /\ IsStripped(discovered'[Len(discovered')].url, abs)
          \/ /\ discovered' = discovered
             /\ \E i \in 1..Len(discovered) : IsStripped(discovered[i].url, abs)]_vars

\* '/a//' and a reference with a query ending in '/' were scanned and keyed.
C12_Witness ==
  /\ site = "mixed"
  /\ <<S, "h", "/", "a">> \in Range(Keys(discovered))
  /\ <<S, "h", "/", "b", "?", "q">> \in Range(Keys(discovered))
  /\ \E i \in 1..Len(discovered) : discovered[i].url = <<S, "h">> /\ discovered[i].depth > 0


\* ================================================== extract_page_content
\* ------------------------------------------------------------------- text
\* A text is a sequence of chunks; a chunk is an indivisible run of n
\* characters named s. Two chunks are the same characters iff they are equal.
T(s, n) == [s |-> s, n |-> n]

Sp == T(" ", 1)

Nl == T("\n", 1)

Dash == T(" - ", 3)

Bar == T(" | ", 3)

\* len(text)
RECURSIVE TLen(_)
TLen(t) == IF t = <<>> THEN 0 ELSE Head(t).n + TLen(Tail(t))

\* text[:n]
RECURSIVE Truncate(_, _)
Truncate(t, n) ==
  IF t = <<>> \/ n <= 0 THEN <<>>
  ELSE IF Head(t).n <= n THEN <<Head(t)>> \o Truncate(Tail(t), n - Head(t).n)
  ELSE <<T(Head(t).s, n)>>

\* sep.join(texts)
RECURSIVE Join(_, _)
Join(texts, sep) ==
  IF texts = <<>> THEN <<>>
  ELSE IF Len(texts) = 1 THEN texts[1]
  ELSE texts[1] \o sep \o Join(Tail(texts), sep)

\* text.split(sep)[0]
SplitFirst(t, sep) ==
  LET at == {i \in 1..Len(t) : t[i] = sep}
  IN IF at = {} THEN t
     ELSE SubSeq(t, 1, (CHOOSE i \in at : \A j \in at : i <= j) - 1)

\* [p for p in text.split('\n') if p]
RECURSIVE SplitLines(_)
SplitLines(t) ==
  LET first == SplitFirst(t, Nl)
      rest == IF Len(first) < Len(t)
              THEN SplitLines(SubSeq(t, Len(first) + 2, Len(t)))
              ELSE <<>>
  IN IF first = <<>> THEN rest ELSE <<first>> \o rest

\* ------------------------------------------------------------ the document
\* A parsed document: the text of its <title> (<<>> when it has none) and its
\* element nodes in document order, node 1 being <body>. A node has a tag, a
\* class attribute (a token sequence, as URLs are), a role attribute, the
\* index of its parent (0 for <body>) and one string of its own, which comes
\* before its children.
N(tag, cls, role, parent, text) ==
  [tag |-> tag, cls |-> cls, role |-> role, parent |-> parent, text |-> text]

E(tag, parent, text) == N(tag, <<>>, "", parent, text)

RECURSIVE Ancestors(_, _)
Ancestors(nodes, i) ==
  IF nodes[i].parent = 0 THEN {}
  ELSE {nodes[i].parent} \cup Ancestors(nodes, nodes[i].parent)

Subtree(nodes, i) == {j \in 1..Len(nodes) : j = i \/ i \in Ancestors(nodes, j)}

\* The indices of `keep`, in document order.
InOrder(nodes, keep) ==
  SelectSeq([i \in 1..Len(nodes) |-> i], LAMBDA i : i \in keep)

\* The non-empty strings of the nodes of `keep`, in document order.
Strings(nodes, keep) ==
  LET idx == InOrder(nodes, {i \in keep : nodes[i].text # <<>>})
  IN [k \in 1..Len(idx) |-> nodes[idx[k]].text]

\* element.get_text(separator=sep, strip=True), the tree holding `present`
GetText(nodes, present, i, sep) ==
  Join(Strings(nodes, Subtree(nodes, i) \cap (present \cup {i})), sep)

All(nodes) == 1..Len(nodes)

\* A CSS selector `anc tag.cls[role=role]`, an empty part matching anything.
Sel(anc, tag, cls, role) == [anc |-> anc, tag |-> tag, cls |-> cls, role |-> role]

SelMatches(sel, nodes, i) ==
  /\ sel.tag # "" => nodes[i].tag = sel.tag
  /\ sel.cls # <<>> => nodes[i].cls = sel.cls
  /\ sel.role # "" => nodes[i].role = sel.role
  /\ sel.anc # "" => \E a \in Ancestors(nodes, i) : nodes[a].tag = sel.anc

\* select_one(selector): the first match in document order, 0 for None
SelectOne(nodes, sel) ==
  LET hits == {i \in All(nodes) : SelMatches(sel, nodes, i)}
  IN IF hits = {} THEN 0 ELSE CHOOSE i \in hits : \A j \in hits : i <= j

\* ------------------------------------------------------------------ title
\* h1.get_text(separator=' ', strip=True), else the <title> text cut by
\* `if ' - ' in title_text: ... elif ' | ' in title_text: ...`
StaticTitle(d) ==
  LET h1 == SelectOne(d.nodes, Sel("", "h1", <<>>, ""))
  IN IF h1 # 0 THEN GetText(d.nodes, All(d.nodes), h1, <<Sp>>)
     ELSE IF \E i \in 1..Len(d.title) : d.title[i] = Dash
          THEN SplitFirst(d.title, Dash)
     ELSE IF \E i \in 1..Len(d.title) : d.title[i] = Bar
          THEN SplitFirst(d.title, Bar)
     ELSE d.title

\* el.innerText.trim(): the strings of the element, one rendered line each
InnerText(nodes, i) == GetText(nodes, All(nodes), i, <<Nl>>)

\* h1.innerText.trim(), else document.title.split(' - ')[0].split(' | ')[0]
BrowserTitle(d) ==
  LET h1 == SelectOne(d.nodes, Sel("", "h1", <<>>, ""))
  IN IF h1 # 0 THEN InnerText(d.nodes, h1)
     ELSE SplitFirst(SplitFirst(d.title, Dash), Bar)

\* ----------------------------------------------------------- content root
Selectors ==
  << Sel("main", "article", <<>>, ""),
     Sel("main", "", <<"content">>, ""),
     Sel("", "article", <<>>, ""),
     Sel("", "main", <<>>, ""),
     Sel("", "", <<"docs-", "content">>, ""),
     Sel("", "", <<"doc-", "content">>, ""),
     Sel("", "", <<"markdown-body">>, ""),
     Sel("", "", <<"post-", "content">>, ""),
     Sel("", "", <<"entry-", "content">>, ""),
     Sel("", "", <<"article-", "content">>, ""),
     Sel("", "", <<"page-", "content">>, ""),
     Sel("", "", <<>>, "main") >>

\* The loop over selectors: the first selector whose first match holds more
\* than 100 characters of text; soup.body when there is none.
RECURSIVE PickRoot(_, _)
PickRoot(nodes, k) ==
  IF k > Len(Selectors) THEN 1
  ELSE LET i == SelectOne(nodes, Selectors[k])
       IN IF i # 0 /\ TLen(GetText(nodes, All(nodes), i, <<>>)) > 100 THEN i
          ELSE PickRoot(nodes, k + 1)

\* A mutant of UnwantedSelectors: the class and role selectors are left out.
UnwantedTagsOnly ==
  { Sel("", tg, <<>>, "") : tg \in {"script", "style", "noscript", "iframe",
                                    "nav", "header", "footer", "aside"} }

UnwantedSelectors ==
  { Sel("", tg, <<>>, "") : tg \in {"script", "style", "noscript", "iframe",
                                    "nav", "header", "footer", "aside"} }
  \cup
  { Sel("", "", c, "") : c \in { <<"sidebar">>, <<"menu">>, <<"nav", "igation">>,
                                 <<"nav">>, <<"comments">>, <<"ad">>,
                                 <<"advertisement">>, <<"cookie-banner">>,
                                 <<"popup">>, <<"modal">>, <<"toc">>,
                                 <<"table-of-contents">>, <<"on-this-page">> } }
  \cup
  { Sel("", "", <<>>, r) : r \in {"navigation", "banner"} }

\* The elements main_content.find_all(True) yields after the decompose loop:
\* the descendants of the root outside every unwanted subtree.
Kept(nodes, root) ==
  LET below == Subtree(nodes, root) \ {root}
      unwanted == {i \in below : \E sel \in UnwantedSelectors : SelMatches(sel, nodes, i)}
  IN {i \in below : i \notin unwanted /\ Ancestors(nodes, i) \cap unwanted = {}}

\* -------------------------------------------------------- process_element
HeadingTags == <<"h1", "h2", "h3", "h4", "h5", "h6">>

\* A mutant of Level: every heading is a top-level heading.
LevelAlwaysOne(tag) == 1

\* A mutant of Level: the position of the tag counted from 0.
LevelFromZero(tag) ==
  (CHOOSE l \in 1..6 : HeadingTags[l] = tag) - 1

\* int(tag[1])
Level(tag) == CHOOSE l \in 1..6 : HeadingTags[l] = tag

Heading(l, t) == [type |-> "heading", level |-> l, text |-> t]

Block(type, t) == [type |-> type, text |-> t]

ListBlock(ordered, items) == [type |-> "list", ordered |-> ordered, items |-> items]

Emit(st, text, block) ==
  [sections |-> Append(st.sections, block),
   processed_texts |-> st.processed_texts \cup {text}]

\* A mutant of NotProcessed: nothing counts as processed.
NeverProcessed(st, text) == TRUE

\* text not in processed_texts
NotProcessed(st, text) == text \notin st.processed_texts

\* for li in element.find_all('li', recursive=False): the items not seen yet;
\* acc is (items, processed_texts)
RECURSIVE ListItems(_, _)
ListItems(texts, acc) ==
  IF texts = <<>> THEN acc
  ELSE LET item_text == Head(texts)
       IN IF item_text # <<>> /\ NotProcessed(acc, item_text)
          THEN ListItems(Tail(texts),
                         [items |-> Append(acc.items, item_text),
                          processed_texts |-> acc.processed_texts \cup {item_text}])
          ELSE ListItems(Tail(texts), acc)

\* A mutant of BlockTags: every heading counts as a block child.
BlockTagsAllHeadings ==
  {"p", "h1", "h2", "h3", "h4", "h5", "h6", "ul", "ol", "pre", "blockquote"}

BlockTags == {"p", "h1", "h2", "h3", "h4", "ul", "ol", "pre", "blockquote"}

\* process_element(element) on the tree holding `kept`; st is
\* (content['sections'], processed_texts)
ProcessElement(nodes, kept, i, st) ==
  LET tag == nodes[i].tag
      spaced == GetText(nodes, kept, i, <<Sp>>)
  IN CASE tag \in Range(HeadingTags) ->
            IF spaced # <<>> /\ NotProcessed(st, spaced) /\ TLen(spaced) > 1
            THEN Emit(st, spaced, Heading(Level(tag), spaced))
            ELSE st
       [] tag = "p" ->
            IF spaced # <<>> /\ TLen(spaced) > 15 /\ NotProcessed(st, spaced)
            THEN Emit(st, spaced, Block("paragraph", spaced))
            ELSE st
       [] tag \in {"ul", "ol"} ->
            LET lis == InOrder(nodes, {j \in kept : nodes[j].parent = i /\ nodes[j].tag = "li"})
                texts == [k \in 1..Len(lis) |-> GetText(nodes, kept, lis[k], <<Sp>>)]
                acc == ListItems(texts, [items |-> <<>>,
                                         processed_texts |-> st.processed_texts])
            IN IF acc.items # <<>>
               THEN [sections |-> Append(st.sections, ListBlock(tag = "ol", acc.items)),
                     processed_texts |-> acc.processed_texts]
               ELSE [sections |-> st.sections, processed_texts |-> acc.processed_texts]
       [] tag = "pre" ->
            LET codes == {j \in kept \cap Subtree(nodes, i) : j # i /\ nodes[j].tag = "code"}
                code == IF codes = {} THEN i ELSE CHOOSE j \in codes : \A c \in codes : j <= c
                text == GetText(nodes, kept, code, <<>>)
            IN IF text # <<>> /\ NotProcessed(st, text) /\ TLen(text) > 5
               THEN Emit(st, text, Block("code", Truncate(text, 1000)))
               ELSE st
       [] tag = "blockquote" ->
            IF spaced # <<>> /\ NotProcessed(st, spaced)
            THEN Emit(st, spaced, Block("quote", spaced))
            ELSE st
       [] tag \in {"div", "section", "span"} ->
            LET direct_text == nodes[i].text
                has_block_children ==
                  \E j \in kept : nodes[j].parent = i /\ nodes[j].tag \in BlockTags
            IN IF /\ direct_text # <<>>
                  /\ TLen(direct_text) > 30
                  /\ ~has_block_children
                  /\ NotProcessed(st, direct_text)
               THEN Emit(st, direct_text, Block("paragraph", direct_text))
               ELSE st
       [] OTHER -> st

\* for element in main_content.find_all(True): process_element(element)
RECURSIVE Walk(_, _, _, _)
Walk(nodes, kept, elements, st) ==
  IF elements = <<>> THEN st
  ELSE Walk(nodes, kept, Tail(elements), ProcessElement(nodes, kept, Head(elements), st))

\* A mutant of Meaningful: a line of exactly 30 characters counts too.
MeaningfulFrom30(para) == TLen(para) >= 30

\* len(para) > 30
Meaningful(para) == TLen(para) > 30

\* "If we still have no content, try a simpler extraction"
Fallback(nodes, kept, root) ==
  LET all_text == GetText(nodes, kept, root, <<Nl>>)
      paragraphs == SplitLines(all_text)
      long == SelectSeq(paragraphs, Meaningful)
  IN [k \in 1..Len(long) |-> Block("paragraph", long[k])]

\* ------------------------------------------------- the browser's extraction
\* main || article || .content || document.body
BrowserMain(nodes) ==
  LET m == SelectOne(nodes, Sel("", "main", <<>>, ""))
      a == SelectOne(nodes, Sel("", "article", <<>>, ""))
      c == SelectOne(nodes, Sel("", "", <<"content">>, ""))
  IN IF m # 0 THEN m ELSE IF a # 0 THEN a ELSE IF c # 0 THEN c ELSE 1

BrowserTags == Range(HeadingTags) \cup {"p", "li", "pre", "blockquote"}

ClosestSelectors ==
  { Sel("", tg, <<>>, "") : tg \in {"nav", "aside", "header", "footer", "mat-sidenav"} }
  \cup
  { Sel("", "", c, "") : c \in { <<"sidebar">>, <<"nav">>, <<"menu">>, <<"toc">>,
                                 <<"table-of-contents">> } }
  \cup
  { Sel("", "", <<>>, "navigation") }

\* el.closest(selector): the element itself or an ancestor matches
Closest(nodes, i) ==
  \E a \in {i} \cup Ancestors(nodes, i) :
    \E sel \in ClosestSelectors : SelMatches(sel, nodes, a)

\* parent.className.includes('nav') || ... 'menu' ... 'sidebar' ... 'side_navigation'
NavParent(nodes, i) ==
  /\ nodes[i].parent # 0
  /\ \E w \in { <<"nav">>, <<"menu">>, <<"sidebar">>, <<"side_", "nav", "igation">> } :
       Contains(nodes[nodes[i].parent].cls, w)

\* The body of elements.forEach for one element
BrowserElement(nodes, i, sections) ==
  LET tag == nodes[i].tag
      text == InnerText(nodes, i)
  IN IF text = <<>> \/ TLen(text) < 3 THEN sections
     ELSE IF Closest(nodes, i) \/ NavParent(nodes, i) THEN sections
     ELSE IF tag \in Range(HeadingTags)
          THEN Append(sections, Heading(Level(tag), text))
     ELSE IF tag = "p" /\ TLen(text) > 15
          THEN Append(sections, Block("paragraph", text))
     ELSE IF tag = "li" /\ TLen(text) > 10
          THEN Append(sections, Block("list_item", text))
     ELSE IF tag = "pre"
          THEN Append(sections, Block("code", Truncate(text, 1000)))
     ELSE IF tag = "blockquote"
          THEN Append(sections, Block("quote", text))
     ELSE sections

RECURSIVE BrowserWalk(_, _, _)
BrowserWalk(nodes, elements, sections) ==
  IF elements = <<>> THEN sections
  ELSE BrowserWalk(nodes, Tail(elements), BrowserElement(nodes, Head(elements), sections))

\* soup._browser_extracted: what page.evaluate returns for the document
BrowserExtracted(d) ==
  LET main == BrowserMain(d.nodes)
      elements == InOrder(d.nodes, {i \in Subtree(d.nodes, main) \ {main} :
                                      d.nodes[i].tag \in BrowserTags})
  IN [title |-> BrowserTitle(d), sections |-> BrowserWalk(d.nodes, elements, <<>>)]

\* extract_page_content(soup, url) as one function of the document
ExtractPageContent(d, br) ==
  IF br THEN BrowserExtracted(d)
  ELSE LET root == PickRoot(d.nodes, 1)
           kept == Kept(d.nodes, root)
           st == Walk(d.nodes, kept, InOrder(d.nodes, kept),
                      [sections |-> <<>>, processed_texts |-> {}])
       IN [title |-> StaticTitle(d),
           sections |-> IF st.sections = <<>> THEN Fallback(d.nodes, kept, root)
                        ELSE st.sections]

\* -------------------------------------------------------------- documents
Titles ==
  { <<>>,
    <<T("Guide", 5)>>,
    <<T("Guide", 5), Dash, T("Site", 4)>>,
    <<T("Guide", 5), Bar, T("Docs", 4), Dash, T("Site", 4)>>,
    <<T("Guide", 5), Dash, T("Docs", 4), Bar, T("Site", 4)>> }

\* A documentation page: navigation, then <main><article> with the content.
ArticlePage ==
  << E("body", 0, <<>>),
     E("nav", 1, <<>>), E("ul", 2, <<>>), E("li", 3, <<T("menu", 12)>>),
     E("main", 1, <<>>), E("article", 5, <<>>),
     E("h1", 6, <<T("Intro", 5)>>),
     E("p", 6, <<>>), E("span", 8, <<T("lead", 40)>>),
     E("div", 6, <<>>), E("p", 10, <<T("body", 60)>>),
     E("section", 6, <<T("note", 31)>>), E("span", 12, <<T("note", 31)>>),
     E("h2", 6, <<T("Intro", 5)>>),
     E("aside", 6, <<>>), E("p", 15, <<T("advert", 20)>>) >>

\* A page without structural tags: a table of text cells.
PlainPage ==
  << E("body", 0, <<>>),
     E("table", 1, <<>>), E("tr", 2, <<>>),
     E("td", 3, <<T("row", 40)>>),
     E("td", 3, <<T("short", 30)>>),
     E("td", 3, <<T("row", 40)>>),
     E("td", 3, <<T("first", 31), Nl, T("second", 8), Nl, T("third", 35)>>) >>

\* Lists: repeated items, an item wrapping a paragraph, an ordered list.
ListPage ==
  << E("body", 0, <<>>),
     E("ul", 1, <<>>),
     E("li", 2, <<T("one", 12)>>),
     E("li", 2, <<>>), E("p", 4, <<T("two", 20)>>),
     E("li", 2, <<T("one", 12)>>),
     E("ol", 1, <<>>), E("li", 7, <<T("one", 12)>>),
     E("ol", 1, <<>>), E("li", 9, <<T("x", 2)>>), E("li", 9, <<T("three", 11)>>),
     E("h2", 1, <<T("Steps", 5)>>) >>

\* Code and the thresholds: two <pre> equal in their first 1000 characters,
\* texts of exactly 5, 1 and 30 characters.
CodePage ==
  << E("body", 0, <<>>),
     E("pre", 1, <<>>), E("code", 2, <<T("code", 1000), T("a", 5)>>),
     E("pre", 1, <<T("code", 1000), T("b", 5)>>),
     E("pre", 1, <<T("tiny", 5)>>),
     E("blockquote", 1, <<T("quote", 8)>>),
     E("h3", 1, <<T("k", 1)>>),
     E("div", 1, <<T("thirty", 30)>>),
     E("h6", 1, <<T("last", 4)>>) >>

\* A <main> too short to be the content root, and boilerplate by class.
NavPage ==
  << E("body", 0, <<>>),
     E("main", 1, <<>>), E("p", 2, <<T("stub", 20)>>),
     N("div", <<"sidebar">>, "", 1, <<>>), E("p", 4, <<T("side", 40)>>),
     E("footer", 1, <<>>), E("p", 6, <<T("foot", 40)>>),
     N("div", <<"nav", "bar">>, "", 1, <<>>), E("p", 8, <<T("bar", 40)>>),
     N("div", <<>>, "navigation", 1, <<>>), E("h2", 10, <<T("links", 5)>>) >>

\* Generic containers: direct text of 30, 31 and 40 characters, with and
\* without children.
ContainerPage ==
  << E("body", 0, <<>>),
     E("div", 1, <<T("thirty", 30)>>),
     E("div", 1, <<T("plain", 31)>>),
     E("section", 1, <<T("withp", 40)>>), E("p", 4, <<T("inner", 20)>>),
     E("div", 1, <<T("withh5", 40)>>), E("h5", 6, <<T("minor", 5)>>),
     E("span", 1, <<T("plain", 31)>>),
     E("div", 1, <<T("tiny", 8)>>) >>

\* A page without structural tags whose footer and sidebar hold long lines.
FooterPage ==
  << E("body", 0, <<>>),
     E("table", 1, <<>>), E("tr", 2, <<>>), E("td", 3, <<T("cell", 40)>>),
     E("footer", 1, <<>>), E("b", 5, <<T("foot", 40)>>),
     N("div", <<"sidebar">>, "", 1, <<T("side", 40)>>),
     E("style", 1, <<T("css", 50)>>) >>

Bodies == {ArticlePage, PlainPage, ListPage, CodePage, NavPage, ContainerPage,
           FooterPage}

Docs == [title : Titles, nodes : Bodies]

NoContent == [title |-> <<>>, sections |-> <<>>]

NoMainContent == [root |-> 0, kept |-> {}]

\* ------------------------------------------- extract_page_content, stepwise
\* hasattr(soup, '_browser_extracted'): return what the browser extracted
BrowserShortcut ==
  /\ pc = "extract"
  /\ browser
  /\ content' = BrowserExtracted(doc)
  /\ pc' = "extracted"
  /\ UNCHANGED <<processing, merging, discovery, browsing,
                 doc, browser, main_content, processed_texts, element,
                 classified>>

\* "Get title - try multiple sources"
ResolveTitle ==
  /\ pc = "extract"
  /\ ~browser
  /\ content' = [title |-> StaticTitle(doc), sections |-> <<>>]
  /\ pc' = "select"
  /\ UNCHANGED <<processing, merging, discovery, browsing,
                 doc, browser, main_content, processed_texts, element,
                 classified>>

\* "Find main content area", copy it, "Remove unwanted elements"
FindMainContent ==
  /\ pc = "select"
  /\ LET root == PickRoot(doc.nodes, 1)
     IN main_content' = [root |-> root, kept |-> Kept(doc.nodes, root)]
  /\ processed_texts' = {}
  /\ element' = 1
  /\ pc' = "walk"
  /\ UNCHANGED <<processing, merging, discovery, browsing,
                 doc, browser, content, classified>>

Elements == InOrder(doc.nodes, main_content.kept)

\* One iteration of `for element in main_content.find_all(True)`
ProcessNext ==
  /\ pc = "walk"
  /\ element <= Len(Elements)
  /\ LET st == ProcessElement(doc.nodes, main_content.kept, Elements[element],
                              [sections |-> content.sections,
                               processed_texts |-> processed_texts])
     IN /\ content' = [content EXCEPT !.sections = st.sections]
        /\ processed_texts' = st.processed_texts
  /\ element' = element + 1
  /\ UNCHANGED <<processing, merging, discovery, browsing,
                 doc, browser, main_content, classified, pc>>

\* if not content['sections']: the simpler extraction, then return
SimplerExtraction ==
  /\ pc = "walk"
  /\ element > Len(Elements)
  /\ content.sections = <<>>
  /\ content' = [content EXCEPT
                   !.sections = Fallback(doc.nodes, main_content.kept, main_content.root)]
  /\ classified' = content.sections
  /\ pc' = "extracted"
  /\ UNCHANGED <<processing, merging, discovery, browsing,
                 doc, browser, main_content, processed_texts, element>>

\* return content
ReturnContent ==
  /\ pc = "walk"
  /\ element > Len(Elements)
  /\ content.sections # <<>>
  /\ classified' = content.sections
  /\ pc' = "extracted"
  /\ UNCHANGED <<processing, merging, discovery, browsing,
                 doc, browser, content, main_content, processed_texts,
                 element>>

InitExtract ==
  /\ NoDiscovery
  /\ pc = "extract"
  /\ doc \in Docs
  /\ browser \in BOOLEAN
  /\ content = NoContent
  /\ main_content = NoMainContent
  /\ processed_texts = {}
  /\ element = 1
  /\ classified = <<>>
  /\ NoProcessing
  /\ NoBrowsing

NextExtract ==
  \/ BrowserShortcut
  \/ ResolveTitle
  \/ FindMainContent
  \/ ProcessNext
  \/ SimplerExtraction
  \/ ReturnContent

SpecExtract == InitExtract /\ [][NextExtract]_vars

\* ------------------------------------------------ properties of extraction
\* The text values of a Page Result: block texts and list items, in order.
RECURSIVE TextsOf(_)
TextsOf(sections) ==
  IF sections = <<>> THEN <<>>
  ELSE (IF Head(sections).type = "list" THEN Head(sections).items
        ELSE <<Head(sections).text>>) \o TextsOf(Tail(sections))

\* C13: in a returned Page Result no text value occurs twice, whatever the
\* strategy and the block types, the blocks of the fallback path included.
C13_NoTextTwice ==
  pc = "extracted" => NoDup(TextsOf(content.sections))

BlockTypes == {"heading", "paragraph", "list", "code", "quote"}

WellShaped(b, types) ==
  /\ b.type \in types
  /\ b.type = "heading" => DOMAIN b = {"type", "level", "text"} /\ b.level \in 1..6
  /\ b.type = "list" => /\ DOMAIN b = {"type", "ordered", "items"}
                        /\ b.ordered \in BOOLEAN
                        /\ b.items # <<>>
  /\ b.type \notin {"heading", "list"} => DOMAIN b = {"type", "text"}

CutAtFirstSeparator(t) ==
  LET at == {i \in 1..Len(t) : t[i] \in {Dash, Bar}}
  IN IF at = {} THEN t
     ELSE SubSeq(t, 1, (CHOOSE i \in at : \A j \in at : i <= j) - 1)

\* C15: the resolved title is the text of the first h1 when there is one, else
\* the declared title cut at the first ' - ' or ' | ' (so it holds neither);
\* hence the same for both strategies.
C15_TitleCutAtFirstSeparator ==
  pc = "extracted" =>
    LET h1s == {i \in 1..Len(doc.nodes) : doc.nodes[i].tag = "h1"}
    IN IF h1s # {}
       THEN content.title = doc.nodes[CHOOSE i \in h1s : \A j \in h1s : i <= j].text
       ELSE /\ content.title = CutAtFirstSeparator(doc.title)
            /\ \A i \in 1..Len(content.title) : content.title[i] \notin {Dash, Bar}

\* The lines of the content root's plain text, in document order: the lines
\* of each string of the root and of the elements left under it.
RECURSIVE LinesOf(_)
LinesOf(strings) ==
  IF strings = <<>> THEN <<>>
  ELSE SplitLines(Head(strings)) \o LinesOf(Tail(strings))

MaxPages == 5

\* The URLs main works through: what discovery or the URLs file gave.
UrlList == [k \in 1..MaxPages |-> <<S, "h", "/", "p">> \o [j \in 1..k |-> "a"]]

\* A URL as a text, for `content['title'] or url`: a chunk per token.
UrlText(url) == [k \in 1..Len(url) |-> T(url[k], 1)]

\* A page with nothing to extract.
EmptyPage == << E("body", 0, <<>>), E("p", 1, <<T("hi", 2)>>) >>

\* The documents the fetches of the page loop return.
PageDocs ==
  { [title |-> <<>>, nodes |-> PlainPage],
    [title |-> <<T("Guide", 5)>>, nodes |-> ArticlePage],
    [title |-> <<T("Guide", 5), Dash, T("Site", 4)>>, nodes |-> EmptyPage] }

\* The PDF create_page_pdf writes for page i: its file name carries i, its
\* first paragraph the title.
Artifact(i, title) == [i |-> i, title |-> title, entries |-> <<>>]

\* A mutant of Ordinal: the index of the page among the URLs.
OrdinalIsIndex(paths, i) == i

\* len(pdf_paths), taken after the append
Ordinal(paths, i) == Len(paths)

\* content['title'] or url
TitleOrUrl(title, url) == IF title # <<>> THEN title ELSE UrlText(url)

\* A mutant of NextPage: the loop is left.
AbortPages(i, n) == n + 1

\* continue / end of the loop body: enumerate yields the next URL
NextPage(i, n) == i + 1

\* A mutant of NothingCreated: the check is left out.
NothingCreatedNever(paths) == FALSE

\* if not pdf_paths
NothingCreated(paths) == paths = <<>>

\* get_browser(): the context is created on the first call and kept in the
\* global; later calls return the global.
GetBrowser(ctx, live) ==
  IF ctx = NoContext
  THEN LET new == Cardinality(live) + 1
       IN [browser_context |-> new, contexts |-> live \cup {new}]
  ELSE [browser_context |-> ctx, contexts |-> live]

\* close_browser(): the context, if any, is closed and the global reset.
CloseBrowser(ctx, live) ==
  IF ctx # NoContext
  THEN [browser_context |-> NoContext, contexts |-> live \ {ctx}]
  ELSE [browser_context |-> ctx, contexts |-> live]

\* fetch_func(url): fetch_page_browser calls get_browser(), fetch_page does not.
FetchFunc(br, ctx, live) ==
  IF br THEN GetBrowser(ctx, live) ELSE [browser_context |-> ctx, contexts |-> live]

\* finally: if args.browser: close_browser()
Finally(br, ctx, live) ==
  IF br THEN CloseBrowser(ctx, live) ELSE [browser_context |-> ctx, contexts |-> live]

\* if not urls: sys.exit(1)
NoUrls ==
  /\ pc = "stage2"
  /\ urls = <<>>
  /\ exit_code' = 1
  /\ pc' = "exit"
  /\ UNCHANGED <<browsing, discovery, extraction, pages, merging>>

\* pdf_paths = []; toc_entries = []; enter the loop
Stage2 ==
  /\ pc = "stage2"
  /\ urls # <<>>
  /\ pdf_paths' = <<>>
  /\ toc_entries' = <<>>
  /\ page' = 1
  /\ pc' = "page"
  /\ UNCHANGED <<browsing, discovery, extraction, rendered, exit_code, merging>>

\* soup, error = fetch_func(url); if error: continue
PageFetchFail ==
  /\ pc = "page"
  /\ page <= Len(urls)
  /\ fetched' = Append(fetched, urls[page])
  /\ delayed' = FALSE
  /\ page' = NextPage(page, Len(urls))
  /\ LET s == FetchFunc(browser, browser_context, contexts)
     IN browser_context' = s.browser_context /\ contexts' = s.contexts
  /\ UNCHANGED <<crawl, urls, dequeued, enqueued, extraction, pc, pdf_paths,
                 toc_entries, rendered, exit_code, merging, inline>>

\* soup, error = fetch_func(url), no error
PageFetchOk ==
  /\ pc = "page"
  /\ page <= Len(urls)
  /\ fetched' = Append(fetched, urls[page])
  /\ delayed' = FALSE
  /\ \E d \in PageDocs : doc' = d
  /\ pc' = "extract_page"
  /\ LET s == FetchFunc(browser, browser_context, contexts)
     IN browser_context' = s.browser_context /\ contexts' = s.contexts
  /\ UNCHANGED <<crawl, urls, dequeued, enqueued, browser, content, main_content,
                 processed_texts, element, classified, processing, merging, inline>>

\* content = extract_page_content(soup, url); if not content['sections']: continue
ExtractPage ==
  /\ pc = "extract_page"
  /\ content' = ExtractPageContent(doc, browser)
  /\ IF content'.sections = <<>>
     THEN pc' = "page" /\ page' = NextPage(page, Len(urls))
     ELSE pc' = "render" /\ page' = page
  /\ UNCHANGED <<browsing, discovery, doc, browser, main_content, processed_texts, element,
                 classified, pdf_paths, toc_entries, rendered, exit_code, merging>>

\* if create_page_pdf(content, pdf_path): append the path and the TOC entry;
\* then the polite delay
RenderPage ==
  /\ pc = "render"
  /\ rendered' = Append(rendered, page)
  /\ \E created \in BOOLEAN :
       IF created
       THEN LET paths == Append(pdf_paths, Artifact(page, content.title))
            IN /\ pdf_paths' = paths
               /\ toc_entries' = Append(toc_entries,
                                        <<TitleOrUrl(content.title, urls[page]),
                                          Ordinal(paths, page)>>)
       ELSE UNCHANGED <<pdf_paths, toc_entries>>
  /\ delayed' = (page < Len(urls))
  /\ page' = NextPage(page, Len(urls))
  /\ pc' = "page"
  /\ UNCHANGED <<crawl, urls, fetched, dequeued, enqueued, extraction, exit_code,
                 merging, browsing>>

\* The loop is over; finally: close_browser(); if not pdf_paths: sys.exit(1)
NoPdfs ==
  /\ pc = "page"
  /\ page > Len(urls)
  /\ NothingCreated(pdf_paths)
  /\ LET s == Finally(browser, browser_context, contexts)
     IN browser_context' = s.browser_context /\ contexts' = s.contexts
  /\ exit_code' = 1
  /\ pc' = "exit"
  /\ UNCHANGED <<discovery, extraction, pages, merging, inline>>

\* The entries of the TOC page: f"{i}. {safe_title}", a long title cut
TocLines(entries) ==
  [k \in 1..Len(entries) |->
     <<k, IF TLen(entries[k][1]) > 70
          THEN Truncate(entries[k][1], 67) \o <<T("...", 3)>>
          ELSE entries[k][1]>>]

TocArtifact(entries) == [i |-> 0, title |-> <<T("Inhaltsverzeichnis", 18)>>,
                         entries |-> TocLines(entries)]

\* The loop is over; finally: close_browser(). merge_pdfs is called;
\* create_toc_pdf builds the TOC file or fails (it
\* catches its own exception); "Add TOC first" if the file exists
CreateTocPdf ==
  /\ pc = "page"
  /\ page > Len(urls)
  /\ ~NothingCreated(pdf_paths)
  /\ \E built \in BOOLEAN :
       /\ toc_pdf' = IF built THEN <<TocArtifact(toc_entries)>> ELSE <<>>
       /\ writer' = toc_pdf'
  /\ LET s == Finally(browser, browser_context, contexts)
     IN browser_context' = s.browser_context /\ contexts' = s.contexts
  /\ part' = 1
  /\ pc' = "merge"
  /\ UNCHANGED <<discovery, extraction, processing, merged, final, inline>>

\* for pdf_path in pdf_paths: add its pages, or skip it when it cannot be read
AddPdf ==
  /\ pc = "merge"
  /\ part <= Len(pdf_paths)
  /\ \E readable \in BOOLEAN :
       writer' = IF readable THEN Append(writer, pdf_paths[part]) ELSE writer
  /\ part' = part + 1
  /\ UNCHANGED <<browsing, discovery, extraction, processing, pc, toc_pdf, merged, final>>

\* writer.write(f); return True. main ends with exit code 0.
WriteOutput ==
  /\ pc = "merge"
  /\ part > Len(pdf_paths)
  /\ final' = writer
  /\ merged' = "ok"
  /\ toc_pdf' = <<>>
  /\ exit_code' = 0
  /\ pc' = "exit"
  /\ UNCHANGED <<browsing, discovery, extraction, pages, writer, part>>

\* An exception in merge_pdfs: return False. main prints "Merge failed" and
\* ends with exit code 0.
MergeError ==
  /\ pc = "merge"
  /\ merged' = "failed"
  /\ exit_code' = 0
  /\ pc' = "exit"
  /\ UNCHANGED <<browsing, discovery, extraction, pages, toc_pdf, writer, part, final>>

InitMain ==
  /\ NoCrawl
  /\ \E n \in 0..MaxPages : urls = SubSeq(UrlList, 1, n)
  /\ fetched = <<>>
  /\ delayed = FALSE
  /\ doc = [title |-> <<>>, nodes |-> <<>>]
  /\ browser \in BOOLEAN
  /\ content = NoContent
  /\ main_content = NoMainContent
  /\ processed_texts = {}
  /\ element = 1
  /\ classified = <<>>
  /\ NoProcessing
  /\ NoBrowsing
  /\ pc = "stage2"

NextMain ==
  \/ NoUrls
  \/ Stage2
  \/ PageFetchFail
  \/ PageFetchOk
  \/ ExtractPage
  \/ RenderPage
  \/ NoPdfs
  \/ CreateTocPdf
  \/ AddPdf
  \/ WriteOutput
  \/ MergeError

SpecMain == InitMain /\ [][NextMain]_vars

\* ---------------------------------- properties of the page loop and the merge
InPageLoop == pc \in {"page", "extract_page", "render"}

\* The pages the artifacts were made from, in list order.
PagesOf(paths) == [k \in 1..Len(paths) |-> paths[k].i]

\* C17: in every state of the page loop the TOC list and the artifact list
\* have the same length, the k-th TOC entry is (title, or URL when the title
\* is empty, of the page of the k-th artifact; k), and the artifacts are in
\* processing order; a page that fails consumes no ordinal.
C17_TocMatchesArtifacts ==
  InPageLoop =>
    /\ Len(toc_entries) = Len(pdf_paths)
    /\ \A k \in 1..Len(pdf_paths) :
         /\ pdf_paths[k].i \in 1..Len(urls)
         /\ toc_entries[k] =
              << IF pdf_paths[k].title # <<>> THEN pdf_paths[k].title
                 ELSE UrlText(urls[pdf_paths[k].i]),
                 k >>
         /\ \A j \in 1..(k - 1) : pdf_paths[j].i < pdf_paths[k].i
    /\ (Len(urls) = 5 /\ PagesOf(pdf_paths) = <<1, 2, 4, 5>>) =>
         [k \in 1..4 |-> toc_entries[k][2]] = <<1, 2, 3, 4>>

\* Five pages, page 3 failed to render, one artifact has no title: the
\* artifacts are those of pages 1, 2, 4, 5.
C17_Witness ==
  /\ pc = "page"
  /\ Len(urls) = 5
  /\ page = 6
  /\ rendered = <<1, 2, 3, 4, 5>>
  /\ PagesOf(pdf_paths) = <<1, 2, 4, 5>>
  /\ pdf_paths[3].title = <<>>
  /\ toc_entries[3] = <<UrlText(urls[4]), 3>>

\* C18: whenever merge_pdfs reports success, the Final Document is the TOC
\* artifact followed by every rendered page artifact in processing order, and
\* TOC entry i is that of the i-th content artifact, also when building the
\* TOC fails or a page artifact cannot be read.
C18_FinalIsTocThenAllPages ==
  merged = "ok" =>
    /\ final = <<TocArtifact(toc_entries)>> \o pdf_paths
    /\ \A k \in 1..Len(toc_entries) :
         /\ k + 1 <= Len(final)
         /\ final[1].entries[k][1] = (IF final[k + 1].title # <<>> THEN final[k + 1].title
                                      ELSE UrlText(urls[final[k + 1].i]))

\* C19: if no page was rendered successfully the run ends with a non-zero
\* exit code and merge_pdfs is never called: no TOC file, no Final Document;
\* merge_pdfs runs only on a non-empty artifact list.
C19_NoArtifactsNoMerge ==
  /\ (pc = "exit" /\ pdf_paths = <<>>) =>
       /\ exit_code = 1
       /\ merged = "none"
       /\ toc_pdf = <<>> /\ writer = <<>> /\ final = <<>>
  /\ (pc = "merge" \/ merged # "none" \/ toc_pdf # <<>> \/ final # <<>>) =>
       pdf_paths # <<>>

\* Three pages were fetched, none gave an artifact, and the run failed.
C19_Witness ==
  /\ pc = "exit"
  /\ Len(urls) = 3
  /\ Len(fetched) = 3
  /\ rendered # <<>>
  /\ pdf_paths = <<>>
  /\ exit_code = 1

\* C20: a fetch failure, an extraction without blocks or a renderer failure
\* leaves the artifacts and the TOC as they are and moves on to the next
\* page; the renderer is called only for a page with blocks; the loop is left
\* only after the last page; the exit code is non-zero only when there is no
\* artifact.
C20_FailureExcludesOnePage ==
  [][/\ ((pc = "page" /\ pc' = "page") \/ (pc = "extract_page" /\ pc' = "page")) =>
          /\ page' = page + 1
          /\ UNCHANGED <<pdf_paths, toc_entries, rendered>>
     /\ (pc = "extract_page" /\ pc' = "page") <=> (pc = "extract_page" /\ content'.sections = <<>>)
     /\ pc = "render" =>
          /\ content.sections # <<>>
          /\ rendered' = Append(rendered, page)
          /\ pc' = "page" /\ page' = page + 1
          /\ \/ UNCHANGED <<pdf_paths, toc_entries>>
             \/ /\ pdf_paths' = Append(pdf_paths, Artifact(page, content.title))
                /\ Len(toc_entries') = Len(toc_entries) + 1
                /\ SubSeq(toc_entries', 1, Len(toc_entries)) = toc_entries
     /\ (InPageLoop /\ ~InPageLoop') => (pc = "page" /\ page = Len(urls) + 1)
     /\ exit_code' = 1 => (pdf_paths' = <<>> /\ pc' = "exit")]_vars

\* Pages 1, 2 and 3 failed, each in another way, page 4 gave an artifact, and
\* the run ended with exit code 0.
C20_Witness ==
  /\ pc = "exit"
  /\ exit_code = 0
  /\ Len(urls) = 4
  /\ Len(fetched) = 4
  /\ Len(rendered) = 2
  /\ PagesOf(pdf_paths) = <<4>>

\* ------------------------------------------------ the soft cap and the depth
\* With max_urls = 0 nothing is fetched and nothing returned; a key beyond
\* position 2 * max_urls (the seed aside) comes from the page dequeued last.
CapState ==
  /\ max_urls = 0 => (fetched = <<>> /\ (pc = "done" => urls = <<>>))
  /\ \A i \in 1..Len(discovered) :
       (i > 2 * max_urls /\ i > 1) =>
         /\ dequeued # <<>>
         /\ discovered[i].url \in Targets(dequeued[Len(dequeued)].url)

DepthState ==
  /\ \A i \in 1..Len(discovered) :
       discovered[i].depth <= (IF max_depth > 0 THEN max_depth ELSE 0)
  /\ \A i \in 1..Len(dequeued) :
       dequeued[i].depth >= max_depth =>
         /\ dequeued[i].url \notin Range(fetched)
         /\ dequeued[i] \in Range(discovered)

\* C24: an entry dequeued with depth >= max_depth is dropped, not fetched and
\* not expanded, its key staying in the visited set; a key gets the depth of
\* the page that first discovered it plus one and keeps it; so every visited
\* key has depth <= max(max_depth, 0).
C24_DepthRecorded ==
  [][/\ DepthState /\ DepthState'
     /\ (pc = "loop" /\ dequeued' # dequeued /\ depth' >= max_depth) =>
          (pc' = "loop" /\ UNCHANGED <<fetched, discovered>>)
     /\ pc # "done" => IsPrefix(discovered, discovered')
     /\ (pc # "done" /\ discovered' # discovered) =>
          /\ pc = "scan"
          /\ Len(discovered') = Len(discovered) + 1
          /\ Entry(current_url, depth) \in Range(discovered)
          /\ discovered'[Len(discovered')].depth = depth + 1
          /\ discovered'[Len(discovered')].url \notin Range(Keys(discovered))]_vars

\* A key at depth max_depth was dequeued and dropped and is returned.
C24_Witness ==
  /\ pc = "done"
  /\ max_depth = 1
  /\ \E i \in 1..Len(dequeued) :
       /\ dequeued[i].depth = max_depth
       /\ dequeued[i].url \notin Range(fetched)
       /\ dequeued[i].url \in Range(urls)

\* ------------------------------------------- properties of process_element
\* The walk is about to process an element.
Walking == pc = "walk" /\ element <= Len(Elements)

\* The element the walk processes next.
Cur == Elements[element]

CurText == GetText(doc.nodes, main_content.kept, Cur, <<Sp>>)

DigitOf(tag) ==
  CASE tag = "h1" -> 1 [] tag = "h2" -> 2 [] tag = "h3" -> 3
    [] tag = "h4" -> 4 [] tag = "h5" -> 5 [] tag = "h6" -> 6

IsHeading(i) == doc.nodes[i].tag \in {"h1", "h2", "h3", "h4", "h5", "h6"}

\* The step emits exactly the block b and records its text.
EmitsOne(b, text) ==
  /\ Len(content'.sections) = Len(content.sections) + 1
  /\ SubSeq(content'.sections, 1, Len(content.sections)) = content.sections
  /\ LET new == content'.sections[Len(content'.sections)]
     IN /\ new.type = b.type
        /\ new.text = b.text
        /\ b.type = "heading" => new.level = b.level
  /\ text \in processed_texts'

EmitsNothing == content' = content

\* C25 as stated: a surviving heading with a non-empty text that was not
\* emitted yet gives a Heading block of the tag's level, a one-character
\* heading too.
C25_EveryHeadingEmitted ==
  [][(Walking /\ IsHeading(Cur)) =>
       IF CurText # <<>> /\ CurText \notin processed_texts
       THEN EmitsOne([type |-> "heading", level |-> DigitOf(doc.nodes[Cur].tag),
                      text |-> CurText], CurText)
       ELSE EmitsNothing]_vars

\* C25 amended: a surviving heading whose text has more than one character
\* and is not among the processed texts gives a Heading block of the tag's
\* level; any other heading, a one-character one included, gives none.
C25_LongerHeadingEmitted ==
  [][(Walking /\ IsHeading(Cur)) =>
       IF TLen(CurText) > 1 /\ CurText \notin processed_texts
       THEN EmitsOne([type |-> "heading", level |-> DigitOf(doc.nodes[Cur].tag),
                      text |-> CurText], CurText)
       ELSE EmitsNothing]_vars

\* The one-character h3 gave nothing, the h6 a level-6 heading.
C25_Witness ==
  /\ pc = "extracted"
  /\ ~browser
  /\ doc.nodes = CodePage
  /\ \E k \in 1..Len(content.sections) :
       /\ content.sections[k].type = "heading"
       /\ content.sections[k].level = 6
       /\ content.sections[k].text = <<T("last", 4)>>
  /\ \A k \in 1..Len(content.sections) : content.sections[k].text # <<T("k", 1)>>

IsContainer(i) == doc.nodes[i].tag \in {"div", "section", "span"}

\* The tags of the children of node i that are left in the content root.
ChildTags(i) ==
  {doc.nodes[j].tag : j \in {c \in main_content.kept : doc.nodes[c].parent = i}}

PreSource(i) ==
  LET codes == {j \in main_content.kept \cap Subtree(doc.nodes, i) :
                  j # i /\ doc.nodes[j].tag = "code"}
  IN IF codes = {} THEN i ELSE CHOOSE j \in codes : \A c \in codes : j <= c

\* C27: every Code block of the static path has more than 5 and at most 1000
\* characters and is the first 1000 characters of the text of a <pre> (of its
\* nested <code> when it has one); the duplicate check uses the truncated
\* value, so no two Code blocks have the same text.
C27_CodeTruncatedThenDeduplicated ==
  (pc = "extracted" /\ ~browser) =>
    LET codes == SelectSeq(content.sections, LAMBDA b : b.type = "code")
        pres == {i \in main_content.kept : doc.nodes[i].tag = "pre"}
    IN /\ \A k \in 1..Len(codes) :
            /\ TLen(codes[k].text) > 5
            /\ TLen(codes[k].text) <= 1000
            /\ \E i \in pres :
                 codes[k].text =
                   Truncate(GetText(doc.nodes, main_content.kept, PreSource(i), <<>>), 1000)
       /\ \A j, k \in 1..Len(codes) : codes[j].text = codes[k].text => j = k

\* The boilerplate the content root is cleared of: the nodes under the root
\* that are in a nav, header, footer, aside, script or style subtree or in
\* one marked sidebar, menu or table of contents.
Boilerplate ==
  LET below == Subtree(doc.nodes, main_content.root) \ {main_content.root}
      marked == {i \in below :
                   \/ doc.nodes[i].tag \in {"nav", "header", "footer", "aside",
                                            "script", "style"}
                   \/ doc.nodes[i].cls \in { <<"sidebar">>, <<"menu">>, <<"toc">>,
                                             <<"table-of-contents">> }}
  IN {i \in below : i \in marked \/ Ancestors(doc.nodes, i) \cap marked # {}}

\* No emitted text holds characters of a boilerplate node.
NoBoilerplateText ==
  (pc \in {"walk", "extracted"} /\ ~browser) =>
    LET names == UNION {{doc.nodes[i].text[c].s : c \in 1..Len(doc.nodes[i].text)} :
                          i \in Boilerplate}
        texts == TextsOf(content.sections)
    IN \A k \in 1..Len(texts) : \A c \in 1..Len(texts[k]) : texts[k][c].s \notin names

InlineStart ==
  [pc |-> "loop", discovered |-> <<Entry(start_url, 0)>>,
   to_visit |-> <<Entry(start_url, 0)>>, current_url |-> <<>>, depth |-> 0,
   soup |-> <<>>, error |-> FALSE, link |-> 1, urls |-> <<>>,
   fetched |-> <<>>, dequeued |-> <<>>]

\* while to_visit and len(discovered) < args.limit * 2
InlineLoopCond(st) == st.to_visit # <<>> /\ Len(st.discovered) < max_urls * 2

\* A mutant of InlineTooDeep: entries at args.depth are still fetched.
InlineTooDeepStrict(d) == d > max_depth

\* if depth >= args.depth: continue
InlineTooDeep(d) == d >= max_depth

\* The body of `for a in soup.find_all('a', href=True)` for one link:
\* base_domain is parsed_start.netloc, base_url the scheme and the netloc.
InlineScanLink(href, st) ==
  LET base_domain == Netloc(start_url)
      base_url == <<SchemeOf(start_url), base_domain>>
      skipped ==
        \/ StartsWith(href, "#") \/ StartsWith(href, "javascript:")
        \/ StartsWith(href, "mailto:") \/ StartsWith(href, "tel:")
        \/ \E i \in 1..Len(href) :
             Lower(href[i]) \in {".pdf", ".jpg", ".png", ".gif", ".zip"}
      abs == IF StartsWith(href, "/") THEN UrlJoin(base_url, href)
             ELSE IF ~StartsWithHttp(href) THEN UrlJoin(st.current_url, href)
             ELSE href
      clean_url == RStripSlash(SplitHash(abs))
  IN IF skipped THEN st
     ELSE IF Netloc(abs) # base_domain THEN st
     ELSE IF \E i \in 1..Len(st.discovered) : st.discovered[i].url = clean_url
     THEN st
     ELSE [st EXCEPT
             !.discovered = Append(@, Entry(clean_url, st.depth + 1)),
             !.to_visit = Append(@, Entry(clean_url, st.depth + 1))]

\* urls = list(discovered.keys()); the filter; urls[:args.limit]
InlineUrls(st) ==
  LET keys == [i \in 1..Len(st.discovered) |-> st.discovered[i].url]
      kept == IF filter_pattern # NoFilter
              THEN SelectSeq(keys, LAMBDA u : Contains(LowerSeq(u), LowerSeq(filter_pattern)))
              ELSE keys
  IN Limit(kept, max_urls)

\* current_url, depth = to_visit.pop(0); if depth >= args.depth: continue
InlineDequeue ==
  /\ inline.pc = "loop"
  /\ InlineLoopCond(inline)
  /\ LET e == Head(inline.to_visit)
     IN inline' = [inline EXCEPT
                     !.to_visit = Tail(@),
                     !.current_url = e.url,
                     !.depth = e.depth,
                     !.dequeued = Append(@, e),
                     !.pc = IF InlineTooDeep(e.depth) THEN "loop" ELSE "fetch"]
  /\ UNCHANGED <<discovery, pc, extraction, processing, merging, session>>

\* soup, error = fetch_func(current_url); if error: continue
InlineFetchFail ==
  /\ inline.pc = "fetch"
  /\ FetchFails(site, down, inline.current_url)
  /\ LET s == FetchFunc(browser, browser_context, contexts)
     IN browser_context' = s.browser_context /\ contexts' = s.contexts
  /\ inline' = [inline EXCEPT
                  !.soup = <<>>, !.error = TRUE,
                  !.fetched = Append(@, inline.current_url),
                  !.pc = "loop"]
  /\ UNCHANGED <<discovery, pc, extraction, processing, merging>>

\* soup, error = fetch_func(current_url), no error; the for loop is entered
InlineFetchOk ==
  /\ inline.pc = "fetch"
  /\ ~FetchFails(site, down, inline.current_url)
  /\ LET s == FetchFunc(browser, browser_context, contexts)
     IN browser_context' = s.browser_context /\ contexts' = s.contexts
  /\ LET page_soup == FetchSoup(site, inline.current_url)
     IN inline' = [inline EXCEPT
                     !.soup = page_soup, !.error = FALSE, !.link = 1,
                     !.fetched = Append(@, inline.current_url),
                     !.pc = IF page_soup = <<>> THEN "sleep" ELSE "scan"]
  /\ UNCHANGED <<discovery, pc, extraction, processing, merging>>

\* One iteration of `for a in soup.find_all('a', href=True)`.
InlineScan ==
  /\ inline.pc = "scan"
  /\ LET st == InlineScanLink(inline.soup[inline.link], inline)
     IN inline' = [st EXCEPT
                     !.link = inline.link + 1,
                     !.pc = IF inline.link = Len(inline.soup) THEN "sleep" ELSE "scan"]
  /\ UNCHANGED <<discovery, pc, extraction, processing, merging, session>>

\* time.sleep(0.5)
InlineSleep ==
  /\ inline.pc = "sleep"
  /\ inline' = [inline EXCEPT !.pc = "loop"]
  /\ UNCHANGED <<discovery, pc, extraction, processing, merging, session>>

\* The loop ends; the keys are filtered and cut to args.limit.
InlinePostLoop ==
  /\ inline.pc = "loop"
  /\ ~InlineLoopCond(inline)
  /\ inline' = [inline EXCEPT !.urls = InlineUrls(inline), !.pc = "done"]
  /\ UNCHANGED <<discovery, pc, extraction, processing, merging, session>>

\* ------------------------------------------------------------ main, whole
\* The browser branch of stage 1 is over: main goes on with its urls.
InlineReturn ==
  /\ pc = "inline"
  /\ inline.pc = "done"
  /\ urls' = inline.urls
  /\ pc' = "stage2"
  /\ UNCHANGED <<crawl, hist, extraction, processing, merging, browsing>>

\* urls = discover_urls(...): the call returns.
DiscoverReturn ==
  /\ pc = "done"
  /\ pc' = "stage2"
  /\ UNCHANGED <<discovery, extraction, processing, merging, browsing>>

\* get_browser() cannot start the browser: sys.exit(1). In the page loop the
\* finally clause runs on the way out and finds no context to close.
StartBrowserFails ==
  /\ browser
  /\ browser_context = NoContext
  /\ \/ pc = "inline" /\ inline.pc = "fetch"
     \/ pc = "page" /\ page <= Len(urls)
  /\ exit_code' = 1
  /\ pc' = "exit"
  /\ UNCHANGED <<discovery, extraction, pages, merging, browsing>>

\* An exception that nothing catches (a KeyboardInterrupt) ends main during
\* stage 1, which is outside the try statement.
AbortDiscovery ==
  /\ \/ pc = "inline" /\ inline.pc \in {"loop", "fetch", "scan", "sleep"}
     \/ pc \in {"loop", "fetch", "scan", "sleep"}
  /\ exit_code' = 1
  /\ pc' = "exit"
  /\ UNCHANGED <<discovery, extraction, pages, merging, browsing>>

\* The same in the page loop: the finally clause closes the browser.
AbortPageLoop ==
  /\ pc \in {"page", "extract_page", "render"}
  /\ LET s == Finally(browser, browser_context, contexts)
     IN browser_context' = s.browser_context /\ contexts' = s.contexts
  /\ exit_code' = 1
  /\ pc' = "exit"
  /\ UNCHANGED <<discovery, extraction, pages, merging, inline>>

\* main is started on the three-page site, with or without --browser.
InitRun ==
  /\ start_url = <<S, "h", "/">>
  /\ filter_pattern \in { NoFilter, <<"/", "b">>, <<"x">> }
  /\ max_depth \in 0..MaxDepth
  /\ max_urls \in {1, 10}
  /\ site = "triangle"
  /\ down \in { {}, {<<"a">>} }
  /\ browser \in BOOLEAN
  /\ IF browser
     THEN /\ discovered = <<>> /\ to_visit = <<>> /\ current_url = <<>>
          /\ depth = 0 /\ soup = <<>> /\ error = FALSE /\ urls = <<>>
          /\ link = 1 /\ fetched = <<>> /\ dequeued = <<>> /\ enqueued = <<>>
          /\ delayed = FALSE
          /\ pc = "inline"
          /\ inline = InlineStart
     ELSE /\ Start(start_url)
          /\ inline = NoInline
  /\ run = 1
  /\ prev = NoPrev
  /\ doc = [title |-> <<>>, nodes |-> <<>>]
  /\ content = NoContent
  /\ main_content = NoMainContent
  /\ processed_texts = {}
  /\ element = 1
  /\ classified = <<>>
  /\ NoProcessing
  /\ browser_context = NoContext
  /\ contexts = {}

NextRun ==
  \/ Dequeue
  \/ FetchFail
  \/ FetchOk
  \/ Scan
  \/ Sleep
  \/ PostLoop
  \/ DiscoverReturn
  \/ InlineDequeue
  \/ InlineFetchFail
  \/ InlineFetchOk
  \/ InlineScan
  \/ InlineSleep
  \/ InlinePostLoop
  \/ InlineReturn
  \/ StartBrowserFails
  \/ AbortDiscovery
  \/ NoUrls
  \/ Stage2
  \/ PageFetchFail
  \/ PageFetchOk
  \/ ExtractPage
  \/ RenderPage
  \/ AbortPageLoop
  \/ NoPdfs
  \/ CreateTocPdf
  \/ AddPdf
  \/ WriteOutput
  \/ MergeError

SpecRun == InitRun /\ [][NextRun]_vars

\* ------------------------------------------ the two discovery loops, paired
\* discover_urls and the loop of main are started with the same arguments on
\* the same web and take their steps in any order.
InitTwin ==
  /\ start_url \in Seeds
  /\ filter_pattern \in Filters
  /\ max_depth \in 0..MaxDepth
  /\ max_urls \in 0..MaxURLs
  /\ site \in {"ring", "mixed"}
  /\ down \in DownSets
  /\ Start(start_url)
  /\ run = 1
  /\ prev = NoPrev
  /\ doc = [title |-> <<>>, nodes |-> <<>>]
  /\ browser = TRUE
  /\ content = NoContent
  /\ main_content = NoMainContent
  /\ processed_texts = {}
  /\ element = 1
  /\ classified = <<>>
  /\ NoProcessing
  /\ browser_context = NoContext
  /\ contexts = {}
  /\ inline = InlineStart

NextTwin ==
  \/ Dequeue
  \/ FetchFail
  \/ FetchOk
  \/ Scan
  \/ Sleep
  \/ PostLoop
  \/ InlineDequeue
  \/ InlineFetchFail
  \/ InlineFetchOk
  \/ InlineScan
  \/ InlineSleep
  \/ InlinePostLoop

SpecTwin == InitTwin /\ [][NextTwin]_vars

\* ------------------------------------------- properties of the whole run
\* How often u was passed to the fetch function.
Count(seq, u) == Cardinality({i \in 1..Len(seq) : seq[i] = u})

ThreePages == { <<S, "h", "/">>, <<S, "h", "/", "a">>, <<S, "h", "/", "b">> }

\* C21: on the three-page site, with max_depth = 1, max_urls = 10 and no
\* filter, a run that works through all its pages has discovered exactly
\* the three URLs and has fetched each of them exactly once, discovery and
\* page processing taken together.
C21_EachPageFetchedOnce ==
  (/\ ~browser /\ site = "triangle" /\ down = {}
   /\ max_depth = 1 /\ max_urls = 10 /\ filter_pattern = NoFilter
   /\ pc \in {"merge", "exit"} /\ page > Len(urls)) =>
    /\ Len(discovered) = 3
    /\ Range(Keys(discovered)) = ThreePages
    /\ \A u \in ThreePages : Count(fetched, u) = 1

\* The frontier entries taken so far, by discover_urls or by the loop in main.
Taken == IF browser THEN inline.dequeued ELSE dequeued

\* C22: a page is fetched, extracted and rendered before the next frontier
\* entry is dequeued: the page being extracted or rendered is the frontier
\* entry that was dequeued last.
C22_PageDoneBeforeNextDequeue ==
  pc \in {"extract_page", "render"} =>
    /\ Taken # <<>>
    /\ Taken[Len(Taken)].url = urls[page]

\* The two loops are at the same point of their runs.
SamePoint ==
  \/ /\ inline.pc = pc
     /\ Len(inline.dequeued) = Len(dequeued)
     /\ pc = "scan" => inline.link = link
  \/ inline.pc = "done" /\ pc = "done"

\* C29: started with the same seed, depth, limit and filter on the same web,
\* discover_urls and the discovery loop of main have, at the same point of
\* their runs, the same visited keys with the same depths, the same
\* frontier, the same entry in hand and the same sequence of fetches, and
\* they end with the same URL list.
C29_SameDiscovery ==
  SamePoint =>
    /\ inline.discovered = discovered
    /\ inline.to_visit = to_visit
    /\ inline.dequeued = dequeued
    /\ inline.fetched = fetched
    /\ inline.current_url = current_url
    /\ inline.depth = depth
    /\ pc = "done" => inline.urls = urls

\* Both loops ended after several fetches, with a filter that dropped keys.
C29_Witness ==
  /\ pc = "done" /\ inline.pc = "done"
  /\ Len(inline.fetched) >= 3
  /\ filter_pattern # NoFilter
  /\ inline.urls # <<>>
  /\ Len(inline.urls) < Len(inline.discovered)
  /\ browser_context # NoContext

\* C30: there is never more than one browser context, the global names the
\* one there is, and when main has ended the context is closed and the
\* global is None again, whichever way main ended.
C30_ContextClosedOnEveryExit ==
  /\ Cardinality(contexts) <= 1
  /\ browser_context # NoContext => contexts = {browser_context}
  /\ pc = "exit" => (browser_context = NoContext /\ contexts = {})

====
